---- MODULE Spec2Model ----
(***************************************************************************)
(* Model of MetricCalculator/metrics.py: text normalization, tokenization, *)
(* sentence splitting, the Levenshtein kernel and the WER / CER / SER      *)
(* metrics built on them.                                                  *)
(*                                                                         *)
(* A text is a sequence of one-character strings.  A ratio (a Python       *)
(* float obtained by dividing two ints) is the reduced fraction <<p, q>>.  *)
(***************************************************************************)
EXTENDS Naturals, Integers, Sequences, FiniteSets, TLC

VARIABLES ref, hyp, opts, pc, result, locals, again

vars == <<ref, hyp, opts, pc, result, locals, again>>

(***************************************************************************)
(* Bounds of the input domains.                                            *)
(***************************************************************************)
MaxSeqLen == 5
MaxTextLen == 5
MaxIdLen == 4
MaxWerLen == 3
MaxSerLen == 3

(***************************************************************************)
(* Character classes.                                                      *)
(***************************************************************************)
Letters == {"a", "A"}
Puncts == {",", "."}
Spaces == {" ", "\n"}
Chars == Letters \cup Puncts \cup Spaces
LevElems == {"a", "b"}
WerChars == {"a", "A", ",", " "}
SerChars == {"a", ",", ".", "\n"}

SeqsUpTo(S, n) == UNION {[1..k -> S] : k \in 0..n}

\* str.lower() on one character
Lower(c) == IF c = "A" THEN "a" ELSE c

\* the class \s of the regular expressions, and of str.strip / str.split
IsSpace(c) == c \in Spaces

\* the class \w of the regular expressions
IsWord(c) == c \in Letters

\* the class [.!?] of split_sentences
Terminators == {".", "!", "?"}

IsTerminator(c) == c \in Terminators

\* the line boundaries of str.splitlines that are among Chars
LineBreaks == {"\n"}

IsLineBreak(c) == c \in LineBreaks

\* text.lower()
LowerText(text) == [i \in 1..Len(text) |-> Lower(text[i])]

\* re.sub(r"[^\w\s]", "", text)
StripPunct(text) == SelectSeq(text, LAMBDA c : IsWord(c) \/ IsSpace(c))

\* str.lstrip
RECURSIVE LStrip(_)
LStrip(text) ==
    IF text # <<>> /\ IsSpace(Head(text)) THEN LStrip(Tail(text)) ELSE text

\* str.rstrip
RECURSIVE RStrip(_)
RStrip(text) ==
    IF text # <<>> /\ IsSpace(text[Len(text)])
    THEN RStrip(SubSeq(text, 1, Len(text) - 1))
    ELSE text

\* str.strip()
Strip(text) == RStrip(LStrip(text))

\* CollapseWs with the pattern \s in place of \s+
CollapseWsEach(text) ==
    [i \in 1..Len(text) |-> IF IsSpace(text[i]) THEN " " ELSE text[i]]

\* re.sub(r"\s+", " ", text): every maximal whitespace run becomes one space
RECURSIVE CollapseWs(_)
CollapseWs(text) ==
    IF text = <<>> THEN <<>>
    ELSE IF IsSpace(Head(text))
         THEN <<" ">> \o CollapseWs(LStrip(Tail(text)))
         ELSE <<Head(text)>> \o CollapseWs(Tail(text))

\* re.sub(r"\s+", "", text)
DeleteWs(text) == SelectSeq(text, LAMBDA c : ~IsSpace(c))

\* normalize_text with the whitespace step before the punctuation step
normalize_text_ws_first(text, lowercase, strip_punct, normalize_whitespace) ==
    LET t1 == IF lowercase THEN LowerText(text) ELSE text
        t2 == IF normalize_whitespace THEN Strip(CollapseWs(t1)) ELSE t1
        t3 == IF strip_punct THEN StripPunct(t2) ELSE t2
    IN  t3

normalize_text(text, lowercase, strip_punct, normalize_whitespace) ==
    LET t1 == IF lowercase THEN LowerText(text) ELSE text
        t2 == IF strip_punct THEN StripPunct(t1) ELSE t1
        t3 == IF normalize_whitespace THEN Strip(CollapseWs(t2)) ELSE t2
    IN  t3

\* index of the first element of text that is in S, 0 when there is none
FirstIndex(text, S) ==
    IF \E i \in 1..Len(text) : text[i] \in S
    THEN CHOOSE i \in 1..Len(text) :
             text[i] \in S /\ \A k \in 1..(i - 1) : text[k] \notin S
    ELSE 0

\* str.split(): the maximal runs of non-whitespace
RECURSIVE SplitWs(_)
SplitWs(text) ==
    LET s == LStrip(text)
        k == FirstIndex(s, Spaces)
    IN  IF s = <<>> THEN <<>>
        ELSE IF k = 0 THEN <<s>>
        ELSE <<SubSeq(s, 1, k - 1)>> \o SplitWs(SubSeq(s, k + 1, Len(s)))

tokenize_words(text) == IF text = <<>> THEN <<>> ELSE SplitWs(text)

\* str.splitlines()
RECURSIVE SplitLines(_)
SplitLines(text) ==
    LET k == FirstIndex(text, LineBreaks)
    IN  IF text = <<>> THEN <<>>
        ELSE IF k = 0 THEN <<text>>
        ELSE <<SubSeq(text, 1, k - 1)>>
                 \o SplitLines(SubSeq(text, k + 1, Len(text)))

\* the rest of text after a leading run of terminators
RECURSIVE SkipTerminators(_)
SkipTerminators(text) ==
    IF text # <<>> /\ IsTerminator(Head(text))
    THEN SkipTerminators(Tail(text))
    ELSE text

\* re.split(r"[.!?]+", text)
RECURSIVE ReSplit(_)
ReSplit(text) ==
    LET k == FirstIndex(text, Terminators)
    IN  IF k = 0 THEN <<text>>
        ELSE <<SubSeq(text, 1, k - 1)>>
                 \o ReSplit(SkipTerminators(SubSeq(text, k + 1, Len(text))))

split_sentences(text, method) ==
    IF text = <<>> THEN <<>>
    ELSE IF method = "newline"
    THEN LET lines == SplitLines(text)
             parts == [i \in 1..Len(lines) |-> Strip(lines[i])]
         IN  SelectSeq(parts, LAMBDA p : p # <<>>)
    ELSE LET pieces == ReSplit(text)
             kept == SelectSeq(pieces, LAMBDA p : p # <<>> /\ Strip(p) # <<>>)
         IN  [i \in 1..Len(kept) |-> Strip(kept[i])]

(***************************************************************************)
(* _levenshtein_distance: two rolling rows over the shorter operand.       *)
(* Python index i of a row is index i + 1 here.                            *)
(***************************************************************************)
Min3(a, b, c) ==
    IF a <= b /\ a <= c THEN a ELSE IF b <= c THEN b ELSE c

Cost(x, y) == IF x = y THEN 0 ELSE 1

\* the inner loop, for i in range(1, n + 1), writing into current
RECURSIVE InnerLoop(_, _, _, _, _)
InnerLoop(seq1, sj, previous, current, i) ==
    IF i > Len(seq1) THEN current
    ELSE InnerLoop(seq1, sj, previous,
                   [current EXCEPT ![i + 1] =
                        Min3(previous[i + 1] + 1,
                             current[i] + 1,
                             previous[i] + Cost(seq1[i], sj))],
                   i + 1)

\* OuterLoop without the assignment current[0] = j
RECURSIVE OuterLoopStaleHead(_, _, _, _, _)
OuterLoopStaleHead(seq1, seq2, previous, current, j) ==
    IF j > Len(seq2) THEN previous
    ELSE LET cur == InnerLoop(seq1, seq2[j], previous, current, 1)
         IN  OuterLoopStaleHead(seq1, seq2, cur, previous, j + 1)

\* the outer loop, for j in range(1, m + 1); the two rows swap each round
RECURSIVE OuterLoop(_, _, _, _, _)
OuterLoop(seq1, seq2, previous, current, j) ==
    IF j > Len(seq2) THEN previous
    ELSE LET cur0 == [current EXCEPT ![1] = j]
             cur  == InnerLoop(seq1, seq2[j], previous, cur0, 1)
         IN  OuterLoop(seq1, seq2, cur, previous, j + 1)

\* the operand that plays seq1 in the loops: the shorter one
Shorter(seq1, seq2) == IF Len(seq1) > Len(seq2) THEN seq2 ELSE seq1

Longer(seq1, seq2) == IF Len(seq1) > Len(seq2) THEN seq1 ELSE seq2

\* _levenshtein_distance returning n, not m, when seq1 is empty
_levenshtein_distance_base_n(seq1, seq2) ==
    LET n == Len(seq1)
        m == Len(seq2)
        s1 == Shorter(seq1, seq2)
        s2 == Longer(seq1, seq2)
        previous == [i \in 1..(Len(s1) + 1) |-> i - 1]
        current == [i \in 1..(Len(s1) + 1) |-> 0]
    IN  IF n = 0 THEN n
        ELSE IF m = 0 THEN n
        ELSE OuterLoop(s1, s2, previous, current, 1)[Len(s1) + 1]

_levenshtein_distance(seq1, seq2) ==
    LET n == Len(seq1)
        m == Len(seq2)
        s1 == Shorter(seq1, seq2)
        s2 == Longer(seq1, seq2)
        previous == [i \in 1..(Len(s1) + 1) |-> i - 1]
        current == [i \in 1..(Len(s1) + 1) |-> 0]
    IN  IF n = 0 THEN m
        ELSE IF m = 0 THEN n
        ELSE OuterLoop(s1, s2, previous, current, 1)[Len(s1) + 1]

(***************************************************************************)
(* Ratios.                                                                 *)
(***************************************************************************)
RECURSIVE Gcd(_, _)
Gcd(a, b) == IF b = 0 THEN a ELSE Gcd(b, a % b)

\* the float a / b, for b > 0
Div(a, b) == <<a \div Gcd(a, b), b \div Gcd(a, b)>>

Zero == Div(0, 1)
One == Div(1, 1)

Defaults == [lowercase |-> TRUE, strip_punct |-> FALSE,
           normalize_whitespace |-> TRUE, include_spaces |-> FALSE,
           sentence_split |-> "simple"]

(***************************************************************************)
(* wer, cer, ser.  Each returns <<ratio, numerator, denominator>>; the     *)
(* _locals operators give the values of the local variables of the call.   *)
(***************************************************************************)
wer_locals(ref_text, hyp_text, lowercase, strip_punct, normalize_whitespace) ==
    LET ref_norm == normalize_text(ref_text, lowercase, strip_punct,
                                   normalize_whitespace)
        hyp_norm == normalize_text(hyp_text, lowercase, strip_punct,
                                   normalize_whitespace)
    IN  [ref_tokens |-> tokenize_words(ref_norm),
         hyp_tokens |-> tokenize_words(hyp_norm)]

\* the return statements of wer and of cer, lines 130-134 and 163-166
\* with the division guarded by max(ref_len, 1) in place of the convention
RatioResultGuarded(ref_seq, hyp_seq) ==
    LET ref_len == Len(ref_seq)
        edits == _levenshtein_distance(ref_seq, hyp_seq)
    IN  <<Div(edits, IF ref_len = 0 THEN 1 ELSE ref_len), edits, ref_len>>

\* the return statements of wer and of cer
RatioResult(ref_seq, hyp_seq) ==
    LET ref_len == Len(ref_seq)
        edits == _levenshtein_distance(ref_seq, hyp_seq)
    IN  IF ref_len = 0
        THEN <<IF Len(hyp_seq) = 0 THEN Zero ELSE One, edits, ref_len>>
        ELSE <<Div(edits, ref_len), edits, ref_len>>

\* wer normalizing the hypothesis with the default flags
wer_hyp_defaults(ref_text, hyp_text, lowercase, strip_punct, normalize_whitespace) ==
    RatioResult(
        tokenize_words(normalize_text(ref_text, lowercase, strip_punct,
                                      normalize_whitespace)),
        tokenize_words(normalize_text(hyp_text, TRUE, FALSE, TRUE)))

wer(ref_text, hyp_text, lowercase, strip_punct, normalize_whitespace) ==
    LET l == wer_locals(ref_text, hyp_text, lowercase, strip_punct,
                        normalize_whitespace)
    IN  RatioResult(l.ref_tokens, l.hyp_tokens)

cer_locals(ref_text, hyp_text, lowercase, strip_punct, normalize_whitespace, include_spaces) ==
    LET ref_norm == normalize_text(ref_text, lowercase, strip_punct,
                                   normalize_whitespace)
        hyp_norm == normalize_text(hyp_text, lowercase, strip_punct,
                                   normalize_whitespace)
    IN  [ref_chars |-> IF include_spaces THEN ref_norm ELSE DeleteWs(ref_norm),
         hyp_chars |-> IF include_spaces THEN hyp_norm ELSE DeleteWs(hyp_norm)]

cer(ref_text, hyp_text, lowercase, strip_punct, normalize_whitespace, include_spaces) ==
    LET l == cer_locals(ref_text, hyp_text, lowercase, strip_punct,
                        normalize_whitespace, include_spaces)
    IN  RatioResult(l.ref_chars, l.hyp_chars)

\* for_split with the caller's strip_punct passed on
for_split_strips(text, lowercase, strip_punct, normalize_whitespace) ==
    normalize_text(text, lowercase, strip_punct, normalize_whitespace)

\* ref_for_split, hyp_for_split: normalized with strip_punct forced off
for_split(text, lowercase, strip_punct, normalize_whitespace) ==
    normalize_text(text, lowercase, FALSE, normalize_whitespace)

_norm_sent(s, lowercase, strip_punct, normalize_whitespace) ==
    normalize_text(s, lowercase, strip_punct, normalize_whitespace)

ser_locals(ref_text, hyp_text, lowercase, strip_punct, normalize_whitespace, sentence_split) ==
    LET ref_for_split == for_split(ref_text, lowercase, strip_punct,
                                   normalize_whitespace)
        hyp_for_split == for_split(hyp_text, lowercase, strip_punct,
                                   normalize_whitespace)
        ref_sents_raw == split_sentences(ref_for_split, sentence_split)
        hyp_sents_raw == split_sentences(hyp_for_split, sentence_split)
    IN  [ref_sents_raw |-> ref_sents_raw,
         hyp_sents_raw |-> hyp_sents_raw,
         ref_sents |-> [i \in 1..Len(ref_sents_raw) |->
                          _norm_sent(ref_sents_raw[i], lowercase, strip_punct,
                                     normalize_whitespace)],
         hyp_sents |-> [i \in 1..Len(hyp_sents_raw) |->
                          _norm_sent(hyp_sents_raw[i], lowercase, strip_punct,
                                     normalize_whitespace)]]

\* count_errors that also counts the hypothesis sentences beyond the
\* reference
RECURSIVE count_errors_both(_, _, _, _)
count_errors_both(ref_sents, hyp_sents, i, errors) ==
    IF i > Len(ref_sents) /\ i > Len(hyp_sents) THEN errors
    ELSE IF i > Len(ref_sents) \/ i > Len(hyp_sents)
            \/ hyp_sents[i] # ref_sents[i]
         THEN count_errors_both(ref_sents, hyp_sents, i + 1, errors + 1)
         ELSE count_errors_both(ref_sents, hyp_sents, i + 1, errors)

\* the loop of ser over enumerate(ref_sents)
RECURSIVE count_errors(_, _, _, _)
count_errors(ref_sents, hyp_sents, i, errors) ==
    IF i > Len(ref_sents) THEN errors
    ELSE IF i > Len(hyp_sents) \/ hyp_sents[i] # ref_sents[i]
         THEN count_errors(ref_sents, hyp_sents, i + 1, errors + 1)
         ELSE count_errors(ref_sents, hyp_sents, i + 1, errors)

\* lines 220-235: the result computed from the normalized sentences
ser_return(l) ==
    LET total == Len(l.ref_sents)
        errors == count_errors(l.ref_sents, l.hyp_sents, 1, 0)
    IN  IF total = 0
        THEN <<IF Len(l.hyp_sents) = 0 THEN Zero ELSE One,
               IF Len(l.hyp_sents) = 0 THEN 0 ELSE 1,
               total>>
        ELSE <<Div(errors, total), errors, total>>

ser(ref_text, hyp_text, lowercase, strip_punct, normalize_whitespace, sentence_split) ==
    ser_return(ser_locals(ref_text, hyp_text, lowercase, strip_punct,
                          normalize_whitespace, sentence_split))

(***************************************************************************)
(* The edit-distance kernel applied to a pair of sequences.                *)
(***************************************************************************)
InitLev ==
    /\ ref \in SeqsUpTo(LevElems, MaxSeqLen)
    /\ hyp \in SeqsUpTo(LevElems, MaxSeqLen)
    /\ opts = Defaults
    /\ pc = "start"
    /\ result = <<>>
    /\ locals = <<>>
    /\ again = <<>>

CallLevenshtein ==
    /\ pc = "start"
    /\ pc' = "lev"
    /\ result' = _levenshtein_distance(ref, hyp)
    /\ UNCHANGED <<ref, hyp, opts, locals, again>>

NextLev == CallLevenshtein

SpecLev == InitLev /\ [][NextLev]_vars

(***************************************************************************)
(* The reference recurrence of the edit distance: the full table, entry    *)
(* by entry, with unit costs.                                              *)
(***************************************************************************)
RECURSIVE MinEdits(_, _)
MinEdits(s, t) ==
    IF s = <<>> THEN Len(t)
    ELSE IF t = <<>> THEN Len(s)
    ELSE Min3(MinEdits(Tail(s), t) + 1,
              MinEdits(s, Tail(t)) + 1,
              MinEdits(Tail(s), Tail(t)) + Cost(Head(s), Head(t)))

Max(a, b) == IF a >= b THEN a ELSE b

AbsDiff(a, b) == IF a >= b THEN a - b ELSE b - a

\* C1: _levenshtein_distance(seq1, seq2) is the minimum number of unit-cost
\* insertions, deletions and substitutions turning seq1 into seq2 (the value
\* of the full reference recurrence), whichever operand is longer and also
\* when one of them is empty.
C1_LevenshteinExact ==
    pc = "lev" => result = MinEdits(ref, hyp)

\* C1 witness: the operands were swapped and the distance is none of the
\* trivial values.
C1_Witness ==
    /\ pc = "lev"
    /\ Len(ref) > Len(hyp)
    /\ Len(hyp) >= 2
    /\ result > Len(ref) - Len(hyp)
    /\ result < Len(ref)

\* C8: the distance d of sequences of lengths n and m satisfies
\* |n - m| <= d <= max(n, m).
C8_LevenshteinBounds ==
    pc = "lev" =>
        /\ AbsDiff(Len(ref), Len(hyp)) <= result
        /\ result <= Max(Len(ref), Len(hyp))

\* C8 witness: seq1 is the shorter operand and both bounds are strict; and
\* the base case of an empty seq1 is reached as well.
C8_Witness ==
    /\ pc = "lev"
    /\ Len(ref) < Len(hyp)
    /\ Len(ref) >= 1
    /\ AbsDiff(Len(ref), Len(hyp)) < result
    /\ result < Len(hyp)

(***************************************************************************)
(* normalize_text applied to a text, and once more to its own output.      *)
(***************************************************************************)
InitNorm ==
    /\ ref \in SeqsUpTo(Chars, MaxTextLen)
    /\ hyp = <<>>
    /\ opts = Defaults
    /\ pc = "start"
    /\ result = <<>>
    /\ locals = <<>>
    /\ again = <<>>

CallNormalize ==
    /\ pc = "start"
    /\ \E lc \in BOOLEAN, sp \in BOOLEAN, nw \in BOOLEAN :
          /\ opts' = [opts EXCEPT !.lowercase = lc, !.strip_punct = sp,
                                  !.normalize_whitespace = nw]
          /\ result' = normalize_text(ref, lc, sp, nw)
    /\ pc' = "norm"
    /\ UNCHANGED <<ref, hyp, locals, again>>

CallNormalizeAgain ==
    /\ pc = "norm"
    /\ again' = normalize_text(result, opts.lowercase, opts.strip_punct,
                               opts.normalize_whitespace)
    /\ pc' = "norm2"
    /\ UNCHANGED <<ref, hyp, opts, result, locals>>

NextNorm == CallNormalize \/ CallNormalizeAgain

SpecNorm == InitNorm /\ [][NextNorm]_vars

\* C7: normalization is idempotent for every text and every combination of
\* the three flags.
C7_NormalizeIdempotent ==
    pc = "norm2" => again = result

\* C7 witness: all three steps changed the text and it was normalized twice.
C7_Witness ==
    /\ pc = "norm2"
    /\ opts.lowercase /\ opts.strip_punct /\ opts.normalize_whitespace
    /\ \E i \in 1..Len(ref) : ref[i] = "A"
    /\ \E i \in 1..(Len(ref) - 1) : ref[i] \in Puncts /\ ref[i + 1] = " "
    /\ result # <<>>
    /\ Len(result) < Len(ref)

\* C9: with normalize_whitespace requested the output has no two adjacent
\* whitespace characters, no whitespace other than the ASCII space and no
\* leading or trailing whitespace, whatever lowercase and strip_punct are.
C9_WhitespaceNormalForm ==
    (pc = "norm" /\ opts.normalize_whitespace) =>
        /\ \A i \in 1..Len(result) : IsSpace(result[i]) => result[i] = " "
        /\ \A i \in 1..(Len(result) - 1) :
              ~(IsSpace(result[i]) /\ IsSpace(result[i + 1]))
        /\ result # <<>> => ~IsSpace(result[1]) /\ ~IsSpace(result[Len(result)])

\* C9 witness: a punctuation mark between two spaces inside the text was
\* stripped, and the gap it left was collapsed to one space.
C9_Witness ==
    /\ pc = "norm"
    /\ opts.normalize_whitespace /\ opts.strip_punct
    /\ \E i \in 2..(Len(ref) - 3) :
          /\ IsWord(ref[i - 1])
          /\ ref[i] = " " /\ ref[i + 1] \in Puncts /\ ref[i + 2] = " "
          /\ IsWord(ref[i + 3])
    /\ Len(result) = 3

(***************************************************************************)
(* The three metrics applied to a reference and a hypothesis.              *)
(***************************************************************************)
CallWer ==
    /\ pc = "start"
    /\ \E lc \in BOOLEAN, sp \in BOOLEAN, nw \in BOOLEAN :
          /\ opts' = [Defaults EXCEPT !.lowercase = lc, !.strip_punct = sp,
                                      !.normalize_whitespace = nw]
          /\ result' = wer(ref, hyp, lc, sp, nw)
          /\ locals' = wer_locals(ref, hyp, lc, sp, nw)
    /\ pc' = "wer"
    /\ UNCHANGED <<ref, hyp, again>>

CallCer ==
    /\ pc = "start"
    /\ \E lc \in BOOLEAN, sp \in BOOLEAN, nw \in BOOLEAN, inc \in BOOLEAN :
          /\ opts' = [Defaults EXCEPT !.lowercase = lc, !.strip_punct = sp,
                                      !.normalize_whitespace = nw,
                                      !.include_spaces = inc]
          /\ result' = cer(ref, hyp, lc, sp, nw, inc)
          /\ locals' = cer_locals(ref, hyp, lc, sp, nw, inc)
    /\ pc' = "cer"
    /\ UNCHANGED <<ref, hyp, again>>

CallSer ==
    /\ pc = "start"
    /\ \E lc \in BOOLEAN, sp \in BOOLEAN, nw \in BOOLEAN,
          split \in {"simple", "newline"} :
          /\ opts' = [Defaults EXCEPT !.lowercase = lc, !.strip_punct = sp,
                                      !.normalize_whitespace = nw,
                                      !.sentence_split = split]
          /\ result' = ser(ref, hyp, lc, sp, nw, split)
          /\ locals' = ser_locals(ref, hyp, lc, sp, nw, split)
    /\ pc' = "ser"
    /\ UNCHANGED <<ref, hyp, again>>

\* a second call of ser on the same texts, with only strip_punct changed
CallSerOtherStripPunct ==
    /\ pc = "ser"
    /\ LET l == ser_locals(ref, hyp, opts.lowercase, ~opts.strip_punct,
                           opts.normalize_whitespace, opts.sentence_split)
       IN  again' = [result |-> ser_return(l), locals |-> l]
    /\ pc' = "ser2"
    /\ UNCHANGED <<ref, hyp, opts, result, locals>>

InitWer ==
    /\ ref \in SeqsUpTo(WerChars, MaxWerLen)
    /\ hyp \in SeqsUpTo(WerChars, MaxWerLen)
    /\ opts = Defaults
    /\ pc = "start"
    /\ result = <<>>
    /\ locals = <<>>
    /\ again = <<>>

NextWer == CallWer \/ CallCer

SpecWer == InitWer /\ [][NextWer]_vars

InitSer ==
    /\ ref \in SeqsUpTo(SerChars, MaxSerLen)
    /\ hyp \in SeqsUpTo(SerChars, MaxSerLen)
    /\ opts = Defaults
    /\ pc = "start"
    /\ result = <<>>
    /\ locals = <<>>
    /\ again = <<>>

NextSer == CallSer \/ CallSerOtherStripPunct

SpecSer == InitSer /\ [][NextSer]_vars

\* a text scored against itself
InitIdentity ==
    /\ ref \in SeqsUpTo(Chars, MaxIdLen)
    /\ hyp = ref
    /\ opts = Defaults
    /\ pc = "start"
    /\ result = <<>>
    /\ locals = <<>>
    /\ again = <<>>

NextIdentity == CallWer \/ CallCer \/ CallSer

SpecIdentity == InitIdentity /\ [][NextIdentity]_vars

(***************************************************************************)
(* Counts stated on the text itself, without splitting it.                 *)
(***************************************************************************)
\* the number of maximal runs of non-whitespace characters
WordCount(text) ==
    Cardinality({i \in 1..Len(text) :
                    ~IsSpace(text[i]) /\ (i = 1 \/ IsSpace(text[i - 1]))})

\* the number of characters, whitespace counted or not
CharCount(text, include_spaces) ==
    IF include_spaces THEN Len(text)
    ELSE Cardinality({i \in 1..Len(text) : ~IsSpace(text[i])})

IsDelimiter(c, method) ==
    IF method = "newline" THEN IsLineBreak(c) ELSE IsTerminator(c)

\* the number of pieces between delimiters that are non-empty after
\* trimming: the positions holding the first character of such a piece
SentenceCount(text, method) ==
    Cardinality({i \in 1..Len(text) :
        /\ ~IsDelimiter(text[i], method)
        /\ ~IsSpace(text[i])
        /\ \A k \in 1..(i - 1) :
              \/ IsSpace(text[k])
              \/ \E j \in k..(i - 1) : IsDelimiter(text[j], method)})

\* the float ratio is the quotient num / den
IsQuotient(ratio, num, den) == ratio[1] * den = num * ratio[2]

OptsNormalized(text) ==
    normalize_text(text, opts.lowercase, opts.strip_punct,
                   opts.normalize_whitespace)

\* C2: with sentence_split = "newline" and every other option at its
\* default, the denominator of ser is the number of lines of the reference
\* text that are non-empty after trimming, and every reference line without
\* a counterpart in the hypothesis is an error.
C2_NewlineSplitDefaults ==
    (/\ pc = "ser"
     /\ opts = [Defaults EXCEPT !.sentence_split = "newline"]) =>
        /\ result[3] = SentenceCount(ref, "newline")
        /\ result[2] >= SentenceCount(ref, "newline")
                            - SentenceCount(hyp, "newline")

\* C3: the ratio returned by wer, cer and ser lies in [0, 1], and the
\* numerator and the denominator are non-negative integers.
C3_RatioInUnitInterval ==
    pc \in {"wer", "cer", "ser"} =>
        /\ 0 <= result[1][1] /\ result[1][1] <= result[1][2]
        /\ result[2] \in Nat
        /\ result[3] \in Nat

\* C4: wer returns (ratio, edits, refLen): refLen is the number of reference
\* word tokens after normalization, edits the edit distance of the two
\* token sequences, ratio = edits / refLen when refLen > 0; when refLen = 0
\* the ratio is 0.0 for a hypothesis without tokens and 1.0 otherwise, and
\* edits is the hypothesis token count.  cer does the same over characters.
C4_WerCerResult ==
    /\ pc = "wer" =>
          /\ result[3] = WordCount(OptsNormalized(ref))
          /\ Len(locals.hyp_tokens) = WordCount(OptsNormalized(hyp))
          /\ result[2] = MinEdits(locals.ref_tokens, locals.hyp_tokens)
          /\ result[3] > 0 => IsQuotient(result[1], result[2], result[3])
          /\ result[3] = 0 =>
                /\ result[1] = IF WordCount(OptsNormalized(hyp)) = 0
                               THEN Zero ELSE One
                /\ result[2] = WordCount(OptsNormalized(hyp))
    /\ pc = "cer" =>
          /\ result[3] = CharCount(OptsNormalized(ref), opts.include_spaces)
          /\ Len(locals.hyp_chars)
                = CharCount(OptsNormalized(hyp), opts.include_spaces)
          /\ result[2] = MinEdits(locals.ref_chars, locals.hyp_chars)
          /\ result[3] > 0 => IsQuotient(result[1], result[2], result[3])
          /\ result[3] = 0 =>
                /\ result[1] = IF Len(locals.hyp_chars) = 0
                               THEN Zero ELSE One
                /\ result[2] = Len(locals.hyp_chars)

\* C4 witness: the reference is not empty but has no token once punctuation
\* is stripped, and the hypothesis has two tokens.
C4_Witness ==
    /\ pc = "wer"
    /\ ref # <<>>
    /\ result = <<One, 2, 0>>

\* C5: ser returns (errors / total, errors, total): total is the number of
\* reference sentences; when total > 0, errors is the number of positions
\* i < total where the hypothesis has no sentence or a normalized sentence
\* different from the reference's, so hypothesis sentences beyond total
\* change nothing; when total = 0 the result is (0.0, 0, 0) for a
\* hypothesis without sentences and (1.0, 1, 0) otherwise.
C5_SerResult ==
    pc = "ser" =>
        LET total == SentenceCount(
                         normalize_text(ref, opts.lowercase, FALSE,
                                        opts.normalize_whitespace),
                         opts.sentence_split)
            hyp_total == SentenceCount(
                             normalize_text(hyp, opts.lowercase, FALSE,
                                            opts.normalize_whitespace),
                             opts.sentence_split)
            wrong == {i \in 1..total :
                         \/ i > Len(locals.hyp_sents)
                         \/ locals.hyp_sents[i] # locals.ref_sents[i]}
        IN  /\ result[3] = total
            /\ Len(locals.ref_sents) = total
            /\ Len(locals.hyp_sents) = hyp_total
            /\ total > 0 =>
                  /\ result[2] = Cardinality(wrong)
                  /\ IsQuotient(result[1], result[2], total)
            /\ total = 0 =>
                  result = IF hyp_total = 0 THEN <<Zero, 0, 0>>
                           ELSE <<One, 1, 0>>

\* C5 witness: the hypothesis has a sentence beyond the last reference
\* sentence, and it is not counted.
C5_Witness ==
    /\ pc = "ser"
    /\ result[3] >= 1
    /\ Len(locals.hyp_sents) > result[3]
    /\ result[2] = 0

\* C6: a text scored against itself has no errors: wer, cer and ser return
\* (0.0, 0, N) with N the word count of the normalized text, the number of
\* reference characters, the number of reference sentences, whenever N > 0.
C6_Identity ==
    /\ (pc = "wer" /\ result[3] > 0) =>
          result = <<Zero, 0, WordCount(OptsNormalized(ref))>>
    /\ (pc = "cer" /\ result[3] > 0) =>
          result = <<Zero, 0,
                     CharCount(OptsNormalized(ref), opts.include_spaces)>>
    /\ (pc = "ser" /\ result[3] > 0) =>
          result = <<Zero, 0, Len(locals.ref_sents)>>

\* C6 witness: a text of two words that normalization changes, scored
\* against itself without lowercasing.
C6_Witness ==
    /\ pc = "wer"
    /\ hyp = ref
    /\ ~opts.lowercase
    /\ \E i \in 1..Len(ref) : ref[i] = "A"
    /\ result = <<Zero, 0, 2>>

\* C10: ser splits the texts normalized with punctuation stripping off and
\* applies strip_punct to each sentence afterwards, so with the other
\* options fixed the number of reference sentences and the position at
\* which each sentence is compared are the same for strip_punct = true as
\* for strip_punct = false.
C10_StripPunctKeepsSegmentation ==
    pc = "ser2" =>
        /\ again.result[3] = result[3]
        /\ again.locals.ref_sents_raw = locals.ref_sents_raw
        /\ again.locals.hyp_sents_raw = locals.hyp_sents_raw
        /\ Len(locals.ref_sents) = Len(locals.ref_sents_raw)
        /\ Len(locals.hyp_sents) = Len(locals.hyp_sents_raw)
        /\ \A i \in 1..Len(locals.ref_sents) :
              /\ locals.ref_sents[i] = OptsNormalized(locals.ref_sents_raw[i])
              /\ again.locals.ref_sents[i] =
                    normalize_text(locals.ref_sents_raw[i], opts.lowercase,
                                   ~opts.strip_punct,
                                   opts.normalize_whitespace)
        /\ \A i \in 1..Len(locals.hyp_sents) :
              /\ locals.hyp_sents[i] = OptsNormalized(locals.hyp_sents_raw[i])
              /\ again.locals.hyp_sents[i] =
                    normalize_text(locals.hyp_sents_raw[i], opts.lowercase,
                                   ~opts.strip_punct,
                                   opts.normalize_whitespace)

\* C10 witness: two reference sentences, and stripping punctuation changes
\* the number of errors but not the number of sentences.
C10_Witness ==
    /\ pc = "ser2"
    /\ result[3] = 2
    /\ again.result[3] = 2
    /\ again.result[2] # result[2]

====
